---- MODULE Spec2Model ----
(***************************************************************************)
(* Model of manage_intervals.py: EditIntervalsProgram keeps a flat Python  *)
(* list _m_IntervalList of interval endpoints (even index = start, odd     *)
(* index = end) and edits it with addInterval, removeInterval, clearList.  *)
(* List indices are 0-based as in the source; At(l, i) reads l[i].         *)
(***************************************************************************)
EXTENDS Integers, Sequences, FiniteSets, TLC

\* Largest endpoint value the calls are drawn from.
MaxVal == 6

\* Endpoint values passed to addInterval/removeInterval (negative included).
Values == (-1)..MaxVal

VARIABLES
    intervalList,   \* self._m_IntervalList
    lastCall,       \* the most recent call: [op, start, end]
    prevList,       \* self._m_IntervalList as it was when lastCall was made
    outcome,        \* how lastCall ended: "none", "error" (logger.error), "IndexError"
    refSet          \* reference model: the set of integers that should be covered

vars == <<intervalList, lastCall, prevList, outcome, refSet>>

----------------------------------------------------------------------------
\* Python list primitives, 0-based.

\* l[i]
At(l, i) == l[i + 1]

\* l[-1]
Last(l) == l[Len(l)]

\* l.insert(i, v): positions beyond the end append
InsertAt(l, i, v) ==
    IF i >= Len(l) THEN Append(l, v)
    ELSE SubSeq(l, 1, i) \o <<v>> \o SubSeq(l, i + 1, Len(l))

\* del l[i]
DeleteAt(l, i) == SubSeq(l, 1, i) \o SubSeq(l, i + 2, Len(l))

\* while idx < len(l) and l[idx] < v: idx += 1
RECURSIVE SkipLess(_, _, _)
SkipLess(l, idx, v) ==
    IF idx < Len(l) /\ At(l, idx) < v THEN SkipLess(l, idx + 1, v) ELSE idx

\* Variant of DeleteLess that also deletes an endpoint equal to v (<= in place of <).
RECURSIVE DeleteLessOrEqual(_, _, _)
DeleteLessOrEqual(l, idx, v) ==
    IF idx < Len(l) /\ At(l, idx) <= v THEN DeleteLessOrEqual(DeleteAt(l, idx), idx, v) ELSE l

\* while idx < len(l) and l[idx] < v: del l[idx]
RECURSIVE DeleteLess(_, _, _)
DeleteLess(l, idx, v) ==
    IF idx < Len(l) /\ At(l, idx) < v THEN DeleteLess(DeleteAt(l, idx), idx, v) ELSE l

\* The pairs printIntervals renders: (l[i], l[i + 1]) for i = 0, 2, 4, ...
Enumerate(l) == [k \in 1..(Len(l) \div 2) |-> <<l[2 * k - 1], l[2 * k]>>]

----------------------------------------------------------------------------
\* addInterval, general route.

\* startInsertionIdx: first index whose endpoint is not below start
StartInsertionIdx(l, start) == SkipLess(l, 0, start)

\* endInsertionIdx: first index from startInsertionIdx whose endpoint is not below end
EndInsertionIdx(l, start, end) == SkipLess(l, StartInsertionIdx(l, start), end)

\* Variant of AddStartBoundary that keeps a stored interval end equal to start
\* and steps past it instead of deleting it.
AddStartBoundaryKeepsEnd(l, start, startIdx) ==
    IF startIdx >= Len(l)
    THEN [list |-> l, currentIdx |-> startIdx, raised |-> TRUE]
    ELSE IF start < At(l, startIdx)
    THEN IF startIdx % 2 = 0
         THEN [list |-> InsertAt(l, startIdx, start), currentIdx |-> startIdx + 1, raised |-> FALSE]
         ELSE [list |-> l, currentIdx |-> startIdx, raised |-> FALSE]
    ELSE [list |-> l, currentIdx |-> startIdx + 1, raised |-> FALSE]

\* "Insert the beginning of the new interval": the read of l[currentIdx]
\* raises IndexError when currentIdx is past the end.
AddStartBoundary(l, start, startIdx) ==
    IF startIdx >= Len(l)
    THEN [list |-> l, currentIdx |-> startIdx, raised |-> TRUE]
    ELSE IF start < At(l, startIdx)
    THEN IF startIdx % 2 = 0
         THEN [list |-> InsertAt(l, startIdx, start), currentIdx |-> startIdx + 1, raised |-> FALSE]
         ELSE [list |-> l, currentIdx |-> startIdx, raised |-> FALSE]
    ELSE IF startIdx % 2 = 1
         THEN [list |-> DeleteAt(l, startIdx), currentIdx |-> startIdx, raised |-> FALSE]
         ELSE [list |-> l, currentIdx |-> startIdx + 1, raised |-> FALSE]

\* Variant of AddEndBoundary that takes the parity of the cursor instead of
\* the parity of endInsertionIdx.
AddEndBoundaryCursorParity(l, currentIdx, end, isEndIntervalEnd) ==
    IF Len(l) = 0
    THEN [list |-> l, raised |-> TRUE]
    ELSE IF end > Last(l)
    THEN [list |-> Append(l, end), raised |-> FALSE]
    ELSE IF currentIdx >= Len(l)
    THEN [list |-> l, raised |-> TRUE]
    ELSE IF end < At(l, currentIdx)
    THEN [list |-> IF currentIdx % 2 = 0 THEN InsertAt(l, currentIdx, end) ELSE l,
          raised |-> FALSE]
    ELSE [list |-> IF currentIdx % 2 = 0 THEN DeleteAt(l, currentIdx) ELSE l,
          raised |-> FALSE]

\* Variant of AddEndBoundary that deletes an endpoint equal to end when it is
\* an interval end instead of when it is an interval start.
AddEndBoundaryDeletesEnd(l, currentIdx, end, isEndIntervalEnd) ==
    IF Len(l) = 0
    THEN [list |-> l, raised |-> TRUE]
    ELSE IF end > Last(l)
    THEN [list |-> Append(l, end), raised |-> FALSE]
    ELSE IF currentIdx >= Len(l)
    THEN [list |-> l, raised |-> TRUE]
    ELSE IF end < At(l, currentIdx)
    THEN [list |-> IF ~isEndIntervalEnd THEN InsertAt(l, currentIdx, end) ELSE l,
          raised |-> FALSE]
    ELSE [list |-> IF isEndIntervalEnd THEN DeleteAt(l, currentIdx) ELSE l,
          raised |-> FALSE]

\* "Insert the end of the new interval": reads l[-1], then l[currentIdx].
AddEndBoundary(l, currentIdx, end, isEndIntervalEnd) ==
    IF Len(l) = 0
    THEN [list |-> l, raised |-> TRUE]
    ELSE IF end > Last(l)
    THEN [list |-> Append(l, end), raised |-> FALSE]
    ELSE IF currentIdx >= Len(l)
    THEN [list |-> l, raised |-> TRUE]
    ELSE IF end < At(l, currentIdx)
    THEN [list |-> IF ~isEndIntervalEnd THEN InsertAt(l, currentIdx, end) ELSE l,
          raised |-> FALSE]
    ELSE [list |-> IF ~isEndIntervalEnd THEN DeleteAt(l, currentIdx) ELSE l,
          raised |-> FALSE]

\* currentIdx of addInterval's else branch once start is resolved; the
\* interior deletions leave it where it is.
AddCursor(l, start) == AddStartBoundary(l, start, StartInsertionIdx(l, start)).currentIdx

\* The list of addInterval's else branch when the end-boundary step begins:
\* start resolved and the endpoints below end deleted from the cursor on.
AddBeforeEnd(l, start, end) ==
    DeleteLess(AddStartBoundary(l, start, StartInsertionIdx(l, start)).list,
               AddCursor(l, start), end)

\* Variant of AddGeneral that skips the deletion of the endpoints between
\* start and end.
AddGeneralKeepsInterior(l, start, end) ==
    LET startInsertionIdx == StartInsertionIdx(l, start)
        endInsertionIdx   == EndInsertionIdx(l, start, end)
        isEndIntervalEnd  == endInsertionIdx % 2 = 1
        s1 == AddStartBoundary(l, start, startInsertionIdx)
        s3 == AddEndBoundary(s1.list, s1.currentIdx, end, isEndIntervalEnd)
    IN  IF s1.raised
        THEN [list |-> s1.list, outcome |-> "IndexError"]
        ELSE [list |-> s3.list, outcome |-> IF s3.raised THEN "IndexError" ELSE "none"]

\* The else branch of addInterval: locate, resolve start, delete interior, resolve end.
AddGeneral(l, start, end) ==
    LET startInsertionIdx == StartInsertionIdx(l, start)
        endInsertionIdx   == EndInsertionIdx(l, start, end)
        isEndIntervalEnd  == endInsertionIdx % 2 = 1
        s1 == AddStartBoundary(l, start, startInsertionIdx)
        l2 == DeleteLess(s1.list, s1.currentIdx, end)
        s3 == AddEndBoundary(l2, s1.currentIdx, end, isEndIntervalEnd)
    IN  IF s1.raised
        THEN [list |-> s1.list, outcome |-> "IndexError"]
        ELSE [list |-> s3.list, outcome |-> IF s3.raised THEN "IndexError" ELSE "none"]

\* addInterval reaches its else branch: valid interval, neither the append
\* nor the prepend shortcut applies.
AddTakesGeneralRoute(l, start, end) ==
    /\ start < end
    /\ ~(Len(l) = 0 \/ Last(l) < start)
    /\ ~(At(l, 0) > end)

\* Variant of addInterval whose append shortcut covers the empty list only.
addIntervalNoAppendShortcut(l, start, end) ==
    IF start >= end
    THEN [list |-> l, outcome |-> "error"]
    ELSE IF Len(l) = 0
    THEN [list |-> Append(Append(l, start), end), outcome |-> "none"]
    ELSE IF At(l, 0) > end
    THEN [list |-> InsertAt(InsertAt(l, 0, start), 1, end), outcome |-> "none"]
    ELSE AddGeneral(l, start, end)

\* Variant of addInterval whose prepend shortcut also takes an interval that
\* touches the first stored one (>= in place of >).
addIntervalPrependsTouching(l, start, end) ==
    IF start >= end
    THEN [list |-> l, outcome |-> "error"]
    ELSE IF Len(l) = 0 \/ Last(l) < start
    THEN [list |-> Append(Append(l, start), end), outcome |-> "none"]
    ELSE IF At(l, 0) >= end
    THEN [list |-> InsertAt(InsertAt(l, 0, start), 1, end), outcome |-> "none"]
    ELSE AddGeneral(l, start, end)

\* addInterval(start, end) on list l: the list it leaves and how it ended.
addInterval(l, start, end) ==
    IF start >= end
    THEN [list |-> l, outcome |-> "error"]
    ELSE IF Len(l) = 0 \/ Last(l) < start
    THEN [list |-> Append(Append(l, start), end), outcome |-> "none"]
    ELSE IF At(l, 0) > end
    THEN [list |-> InsertAt(InsertAt(l, 0, start), 1, end), outcome |-> "none"]
    ELSE AddGeneral(l, start, end)

----------------------------------------------------------------------------
\* removeInterval, general route.

\* Variant of RemoveStartBoundary that keeps an interval start equal to start
\* and steps past it instead of deleting it.
RemoveStartBoundaryKeepsStart(l, start, startIdx) ==
    IF startIdx >= Len(l)
    THEN [list |-> l, currentIdx |-> startIdx, raised |-> TRUE]
    ELSE IF start < At(l, startIdx)
    THEN IF startIdx % 2 = 1
         THEN [list |-> InsertAt(l, startIdx, start), currentIdx |-> startIdx + 1, raised |-> FALSE]
         ELSE [list |-> l, currentIdx |-> startIdx, raised |-> FALSE]
    ELSE [list |-> l, currentIdx |-> startIdx + 1, raised |-> FALSE]

\* Variant of RemoveStartBoundary that never inserts start as a new interval end.
RemoveStartBoundaryNoInsert(l, start, startIdx) ==
    IF startIdx >= Len(l)
    THEN [list |-> l, currentIdx |-> startIdx, raised |-> TRUE]
    ELSE IF start < At(l, startIdx)
    THEN [list |-> l, currentIdx |-> startIdx, raised |-> FALSE]
    ELSE IF startIdx % 2 = 0
         THEN [list |-> DeleteAt(l, startIdx), currentIdx |-> startIdx, raised |-> FALSE]
         ELSE [list |-> l, currentIdx |-> startIdx + 1, raised |-> FALSE]

\* Resolve the start of the removed range: the read of l[currentIdx]
\* raises IndexError when currentIdx is past the end.
RemoveStartBoundary(l, start, startIdx) ==
    IF startIdx >= Len(l)
    THEN [list |-> l, currentIdx |-> startIdx, raised |-> TRUE]
    ELSE IF start < At(l, startIdx)
    THEN IF startIdx % 2 = 1
         THEN [list |-> InsertAt(l, startIdx, start), currentIdx |-> startIdx + 1, raised |-> FALSE]
         ELSE [list |-> l, currentIdx |-> startIdx, raised |-> FALSE]
    ELSE IF startIdx % 2 = 0
         THEN [list |-> DeleteAt(l, startIdx), currentIdx |-> startIdx, raised |-> FALSE]
         ELSE [list |-> l, currentIdx |-> startIdx + 1, raised |-> FALSE]

\* Variant of RemoveEndBoundary with the parity test inverted.
RemoveEndBoundaryFlipped(l, currentIdx, end, isEndIntervalEnd) ==
    IF currentIdx >= Len(l)
    THEN l
    ELSE IF end < At(l, currentIdx)
    THEN IF ~isEndIntervalEnd THEN InsertAt(l, currentIdx, end) ELSE l
    ELSE IF ~isEndIntervalEnd THEN DeleteAt(l, currentIdx) ELSE l

\* Resolve the end of the removed range: nothing when the cursor ran past
\* the list, else compare end with l[currentIdx].
RemoveEndBoundary(l, currentIdx, end, isEndIntervalEnd) ==
    IF currentIdx >= Len(l)
    THEN l
    ELSE IF end < At(l, currentIdx)
    THEN IF isEndIntervalEnd THEN InsertAt(l, currentIdx, end) ELSE l
    ELSE IF isEndIntervalEnd THEN DeleteAt(l, currentIdx) ELSE l

\* Variant of RemoveGeneral that takes isEndIntervalEnd from startInsertionIdx.
RemoveGeneralStartParity(l, start, end) ==
    LET startInsertionIdx == StartInsertionIdx(l, start)
        isEndIntervalEnd  == startInsertionIdx % 2 = 1
        s1 == RemoveStartBoundary(l, start, startInsertionIdx)
        l2 == DeleteLess(s1.list, s1.currentIdx, end)
    IN  IF s1.raised
        THEN [list |-> s1.list, outcome |-> "IndexError"]
        ELSE [list |-> RemoveEndBoundary(l2, s1.currentIdx, end, isEndIntervalEnd),
              outcome |-> "none"]

\* The else branch of removeInterval.
RemoveGeneral(l, start, end) ==
    LET startInsertionIdx == StartInsertionIdx(l, start)
        endInsertionIdx   == EndInsertionIdx(l, start, end)
        isEndIntervalEnd  == endInsertionIdx % 2 = 1
        s1 == RemoveStartBoundary(l, start, startInsertionIdx)
        l2 == DeleteLess(s1.list, s1.currentIdx, end)
    IN  IF s1.raised
        THEN [list |-> s1.list, outcome |-> "IndexError"]
        ELSE [list |-> RemoveEndBoundary(l2, s1.currentIdx, end, isEndIntervalEnd),
              outcome |-> "none"]

\* removeInterval reaches its else branch: valid interval, non-empty list
\* whose last endpoint is not below start.
RemoveTakesGeneralRoute(l, start, end) ==
    /\ start < end
    /\ ~(Len(l) = 0 \/ Last(l) < start)

\* Variant of removeInterval that rejects only start > end.
removeIntervalAcceptsEmpty(l, start, end) ==
    IF start > end
    THEN [list |-> l, outcome |-> "error"]
    ELSE IF Len(l) = 0 \/ Last(l) < start
    THEN [list |-> l, outcome |-> "none"]
    ELSE RemoveGeneral(l, start, end)

\* Variant of removeInterval without the shortcut for a range that starts
\* after the last stored endpoint.
removeIntervalNoShortcut(l, start, end) ==
    IF start >= end
    THEN [list |-> l, outcome |-> "error"]
    ELSE IF Len(l) = 0
    THEN [list |-> l, outcome |-> "none"]
    ELSE RemoveGeneral(l, start, end)

\* removeInterval(start, end) on list l: the list it leaves and how it ended.
removeInterval(l, start, end) ==
    IF start >= end
    THEN [list |-> l, outcome |-> "error"]
    ELSE IF Len(l) = 0 \/ Last(l) < start
    THEN [list |-> l, outcome |-> "none"]
    ELSE RemoveGeneral(l, start, end)

\* Variant of clearList that keeps the first stored interval (del l[2:]).
clearListKeepsFirst(l) == IF Len(l) > 2 THEN SubSeq(l, 1, 2) ELSE <<>>

\* clearList(): del self._m_IntervalList[:]
clearList(l) == <<>>

----------------------------------------------------------------------------
\* State machine.

NoCall == [op |-> "none", start |-> 0, end |-> 0]

Init ==
    /\ intervalList = <<>>
    /\ lastCall = NoCall
    /\ prevList = <<>>
    /\ outcome = "none"
    /\ refSet = {}

\* An uncaught IndexError ends the command loop.
Running == outcome # "IndexError"

Add ==
    /\ Running
    /\ \E start \in Values, end \in Values :
         LET r == addInterval(intervalList, start, end)
         IN  /\ intervalList' = r.list
             /\ outcome' = r.outcome
             /\ lastCall' = [op |-> "add", start |-> start, end |-> end]
             /\ prevList' = intervalList
             /\ refSet' = IF start < end THEN refSet \cup (start..(end - 1)) ELSE refSet

Remove ==
    /\ Running
    /\ \E start \in Values, end \in Values :
         LET r == removeInterval(intervalList, start, end)
         IN  /\ intervalList' = r.list
             /\ outcome' = r.outcome
             /\ lastCall' = [op |-> "remove", start |-> start, end |-> end]
             /\ prevList' = intervalList
             /\ refSet' = IF start < end THEN refSet \ (start..(end - 1)) ELSE refSet

Clear ==
    /\ Running
    /\ intervalList' = clearList(intervalList)
    /\ outcome' = "none"
    /\ lastCall' = [op |-> "clear", start |-> 0, end |-> 0]
    /\ prevList' = intervalList
    /\ refSet' = {}

Next == Add \/ Remove \/ Clear

Spec == Init /\ [][Next]_vars

\* Runs that only ever call addInterval: refSet is then the union of the
\* valid inputs.
NextInsert == Add

InsertSpec == Init /\ [][NextInsert]_vars

----------------------------------------------------------------------------
\* Vocabulary of the properties.

\* The integers start, start + 1, ..., end - 1 of the range [start, end)
Range(start, end) == start..(end - 1)

\* The integers covered by the intervals stored in l
Covered(l) ==
    {x \in Values : \E k \in 1..(Len(l) \div 2) : l[2 * k - 1] <= x /\ x < l[2 * k]}

\* The set of stored (start, end) pairs
Intervals(l) == {Enumerate(l)[k] : k \in 1..(Len(l) \div 2)}

\* The values stored in l
Endpoints(l) == {l[i] : i \in 1..Len(l)}

\* The elements of a finite set of integers in ascending order
RECURSIVE Ascending(_)
Ascending(S) ==
    IF S = {} THEN <<>>
    ELSE LET m == CHOOSE x \in S : \A y \in S : x <= y
         IN  <<m>> \o Ascending(S \ {m})

\* Reference interval union: the maximal runs of consecutive integers of S,
\* as (first, last + 1) pairs in ascending order.
MaximalIntervals(S) ==
    LET starts == Ascending({x \in S : x - 1 \notin S})
        ends   == Ascending({x + 1 : x \in {y \in S : y + 1 \notin S}})
    IN  [k \in 1..Len(starts) |-> <<starts[k], ends[k]>>]

ValidCall(op) == lastCall.op = op /\ lastCall.start < lastCall.end

InvalidCall(op) == lastCall.op = op /\ lastCall.start >= lastCall.end

----------------------------------------------------------------------------
\* C1: in every reachable state the endpoint list has even length and is
\* strictly increasing, so the enumerated intervals have start < end and each
\* interval ends strictly before the next one starts.
C1_SortedDisjoint ==
    /\ Len(intervalList) % 2 = 0
    /\ \A i \in 1..(Len(intervalList) - 1) : intervalList[i] < intervalList[i + 1]
    /\ \A k \in 1..Len(Enumerate(intervalList)) :
         /\ Enumerate(intervalList)[k][1] < Enumerate(intervalList)[k][2]
         /\ k > 1 => Enumerate(intervalList)[k - 1][2] < Enumerate(intervalList)[k][1]

\* Three intervals are stored after a removal split one of them.
C1_Witness ==
    /\ ValidCall("remove")
    /\ outcome = "none"
    /\ Len(intervalList) = 6
    /\ Len(prevList) = 4

\* C2: after a valid addInterval(start, end) the covered integers are the
\* previously covered ones together with those of [start, end).
C2_InsertIsUnion ==
    ValidCall("add") =>
        Covered(intervalList) = Covered(prevList) \cup Range(lastCall.start, lastCall.end)

\* An insert that overlaps stored intervals without being inside one.
C2_Witness ==
    /\ ValidCall("add")
    /\ Len(prevList) >= 4
    /\ Covered(prevList) \cap Range(lastCall.start, lastCall.end) # {}
    /\ ~(Range(lastCall.start, lastCall.end) \subseteq Covered(prevList))
    /\ Len(intervalList) < Len(prevList)

\* C3: after a valid removeInterval(start, end) the covered integers are the
\* previously covered ones without those of [start, end).
C3_RemoveIsDifference ==
    ValidCall("remove") =>
        Covered(intervalList) = Covered(prevList) \ Range(lastCall.start, lastCall.end)

\* A removal that takes part of the covered integers and leaves the rest.
C3_Witness ==
    /\ ValidCall("remove")
    /\ Len(prevList) >= 4
    /\ Covered(prevList) \cap Range(lastCall.start, lastCall.end) # {}
    /\ Covered(intervalList) # {}
    /\ Len(intervalList) # Len(prevList)

\* C4: addInterval and removeInterval called with start >= end report an
\* error and leave the endpoint list as it was.
C4_InvalidInterval ==
    (InvalidCall("add") \/ InvalidCall("remove")) =>
        /\ outcome = "error"
        /\ intervalList = prevList

\* remove(5, 3) was called on a set that covers 3 and 4.
C4_Witness ==
    /\ lastCall = [op |-> "remove", start |-> 5, end |-> 3]
    /\ {3, 4} \subseteq Covered(prevList)
    /\ outcome = "error"

\* C5: after any sequence of inserts from the empty set the enumerated
\* intervals are the maximal intervals of the union of the valid inputs.
C5_MatchesReferenceUnion ==
    Enumerate(intervalList) = MaximalIntervals(refSet)

\* Inserts have merged stored intervals and two intervals remain.
C5_Witness ==
    /\ ValidCall("add")
    /\ Len(prevList) = 6
    /\ Len(intervalList) = 4
    /\ refSet # {}

\* C6: repeating a valid addInterval(a, b) right after it leaves the
\* endpoint list as the first call left it.
C6_InsertIdempotent ==
    ValidCall("add") =>
        addInterval(intervalList, lastCall.start, lastCall.end)
            = [list |-> intervalList, outcome |-> "none"]

\* The first insert changed the set by merging stored intervals.
C6_Witness ==
    /\ ValidCall("add")
    /\ Len(prevList) >= 4
    /\ Len(intervalList) < Len(prevList)
    /\ lastCall.start \in Endpoints(intervalList)

\* C7: a valid addInterval(start, end) whose start is the end of a stored
\* interval, or whose end is the start of one, merges with that interval: one
\* stored interval then spans both and the shared boundary value is no longer
\* an endpoint. Inserting [1,3), [4,6), [3,4) from the empty list leaves [(1,6)].
C7_AdjacencyMerges ==
    /\ ValidCall("add") =>
         \A k \in 1..Len(Enumerate(prevList)) :
            LET s == Enumerate(prevList)[k][1]
                e == Enumerate(prevList)[k][2]
            IN  /\ lastCall.start = e =>
                     /\ e \notin Endpoints(intervalList)
                     /\ \E iv \in Intervals(intervalList) :
                           iv[1] <= s /\ lastCall.end <= iv[2]
                /\ lastCall.end = s =>
                     /\ s \notin Endpoints(intervalList)
                     /\ \E iv \in Intervals(intervalList) :
                           iv[1] <= lastCall.start /\ e <= iv[2]
    /\ (lastCall = [op |-> "add", start |-> 3, end |-> 4] /\ prevList = <<1, 3, 4, 6>>) =>
         intervalList = <<1, 6>>
    /\ addInterval(addInterval(<<>>, 1, 3).list, 4, 6).list = <<1, 3, 4, 6>>

\* [3,4) was inserted between the stored (1,3) and (4,6).
C7_Witness ==
    /\ lastCall = [op |-> "add", start |-> 3, end |-> 4]
    /\ prevList = <<1, 3, 4, 6>>
    /\ outcome = "none"

\* C8: a valid removeInterval(a, b) strictly inside a stored interval (s, e),
\* s < a < b < e, replaces (s, e) by (s, a) and (b, e) in place and leaves the
\* other intervals as they were; remove(4,6) on [(1,10)] leaves [(1,4),(6,10)].
C8_SplitOnRemoval ==
    /\ ValidCall("remove") =>
         \A k \in 1..(Len(prevList) \div 2) :
            (prevList[2 * k - 1] < lastCall.start /\ lastCall.end < prevList[2 * k]) =>
                intervalList = SubSeq(prevList, 1, 2 * k - 1)
                                 \o <<lastCall.start, lastCall.end>>
                                 \o SubSeq(prevList, 2 * k, Len(prevList))
    /\ removeInterval(<<1, 10>>, 4, 6) = [list |-> <<1, 4, 6, 10>>, outcome |-> "none"]

\* The middle one of three stored intervals was split.
C8_Witness ==
    /\ ValidCall("remove")
    /\ Len(prevList) = 6
    /\ prevList[3] < lastCall.start
    /\ lastCall.end < prevList[4]
    /\ Len(intervalList) = 8

\* C9: a valid removeInterval(a, b) that overlaps a stored interval (s, e) on
\* one side only shortens it: with s < a < e <= b it becomes (s, a), with
\* a <= s < b < e it becomes (b, e), and no other stored interval meets
\* [s, e). remove(7,12) on [(5,10)] leaves [(5,7)]; remove(0,7) leaves [(7,10)].
C9_PartialTruncation ==
    /\ ValidCall("remove") =>
         \A k \in 1..(Len(prevList) \div 2) :
            LET s == prevList[2 * k - 1]
                e == prevList[2 * k]
                left == {iv \in Intervals(intervalList) : iv[1] < e /\ s < iv[2]}
            IN  /\ (s < lastCall.start /\ lastCall.start < e /\ e <= lastCall.end) =>
                     left = {<<s, lastCall.start>>}
                /\ (lastCall.start <= s /\ s < lastCall.end /\ lastCall.end < e) =>
                     left = {<<lastCall.end, e>>}
    /\ removeInterval(<<5, 10>>, 7, 12) = [list |-> <<5, 7>>, outcome |-> "none"]
    /\ removeInterval(<<5, 10>>, 0, 7) = [list |-> <<7, 10>>, outcome |-> "none"]

\* One removal cut the tail of one stored interval and the head of the next.
C9_Witness ==
    /\ ValidCall("remove")
    /\ Len(prevList) = 4
    /\ prevList[1] < lastCall.start
    /\ lastCall.start < prevList[2]
    /\ prevList[3] < lastCall.end
    /\ lastCall.end < prevList[4]
    /\ intervalList = <<prevList[1], lastCall.start, lastCall.end, prevList[4]>>

\* C10: a valid removeInterval(a, b) whose range [a, b) holds no covered
\* integer leaves the endpoint list as it was and reports no error.
C10_NoOpRemoval ==
    (ValidCall("remove") /\ Covered(prevList) \cap Range(lastCall.start, lastCall.end) = {}) =>
        /\ intervalList = prevList
        /\ outcome = "none"

\* The removed range fills the gap between two stored intervals exactly.
C10_Witness ==
    /\ ValidCall("remove")
    /\ Len(prevList) = 4
    /\ lastCall.start = prevList[2]
    /\ lastCall.end = prevList[3]
    /\ intervalList = prevList
    /\ outcome = "none"

\* C11: clearList leaves the endpoint list empty whatever it held, and a
\* valid addInterval(a, b) on the cleared list leaves exactly [(a, b)], as on
\* the initial list.
C11_ClearEmpties ==
    lastCall.op = "clear" =>
        /\ intervalList = <<>>
        /\ outcome = "none"
        /\ \A a \in Values, b \in Values :
              a < b => addInterval(intervalList, a, b)
                         = [list |-> <<a, b>>, outcome |-> "none"]

\* clearList was called on a list holding two intervals.
C11_Witness ==
    /\ lastCall.op = "clear"
    /\ Len(prevList) = 4
    /\ intervalList = <<>>

\* The latest call was a valid addInterval / removeInterval that took the
\* general route on the list it found.
GeneralAdd == lastCall.op = "add" /\ AddTakesGeneralRoute(prevList, lastCall.start, lastCall.end)

GeneralRemove ==
    lastCall.op = "remove" /\ RemoveTakesGeneralRoute(prevList, lastCall.start, lastCall.end)

\* i and j of the latest call, on the list it found
PrevI == StartInsertionIdx(prevList, lastCall.start)

PrevJ == EndInsertionIdx(prevList, lastCall.start, lastCall.end)

\* C12 as stated: on the general route every endpoint the call found at an
\* index < i or at an index >= j is still stored afterwards.
C12_AsStated ==
    (GeneralAdd \/ GeneralRemove) =>
        \A n \in 0..(Len(prevList) - 1) :
            (n < PrevI \/ n >= PrevJ) => At(prevList, n) \in Endpoints(intervalList)

\* C12 (amended): on the general route every endpoint the call found at an
\* index < i or at an index > j is still stored afterwards, and the endpoint
\* at index j is deleted exactly when it equals end and j is even for
\* addInterval, odd for removeInterval; so only indices in [i, j] are deleted.
C12_FrameUpToJ ==
    (GeneralAdd \/ GeneralRemove) =>
        /\ \A n \in 0..(Len(prevList) - 1) :
              (n < PrevI \/ n > PrevJ) => At(prevList, n) \in Endpoints(intervalList)
        /\ PrevJ < Len(prevList) =>
              (At(prevList, PrevJ) \notin Endpoints(intervalList)
                 <=> /\ At(prevList, PrevJ) = lastCall.end
                     /\ PrevJ % 2 = (IF lastCall.op = "add" THEN 0 ELSE 1))

\* An insert deleted interior endpoints and the endpoint at index j, which
\* equalled end, with endpoints kept on both sides.
C12_Witness ==
    /\ GeneralAdd
    /\ outcome = "none"
    /\ 0 < PrevI
    /\ PrevI < PrevJ
    /\ PrevJ < Len(prevList) - 1
    /\ At(prevList, PrevJ) = lastCall.end
    /\ At(prevList, PrevJ) \notin Endpoints(intervalList)

\* The latest call was an addInterval on the general route whose end-boundary
\* step found end not above the last endpoint and read the endpoint at the cursor.
EndStepReadsCursor ==
    /\ GeneralAdd
    /\ Len(AddBeforeEnd(prevList, lastCall.start, lastCall.end)) > 0
    /\ ~(lastCall.end > Last(AddBeforeEnd(prevList, lastCall.start, lastCall.end)))
    /\ AddCursor(prevList, lastCall.start)
         < Len(AddBeforeEnd(prevList, lastCall.start, lastCall.end))

\* C13 as stated: in that step end is inserted at the cursor (when below the
\* endpoint there), or the endpoint there is deleted (when equal to end),
\* exactly when the cursor index is even; otherwise the list stays.
C13_AsStated ==
    EndStepReadsCursor =>
        LET l2  == AddBeforeEnd(prevList, lastCall.start, lastCall.end)
            cur == AddCursor(prevList, lastCall.start)
        IN  intervalList =
              IF cur % 2 # 0 THEN l2
              ELSE IF lastCall.end < At(l2, cur) THEN InsertAt(l2, cur, lastCall.end)
              ELSE DeleteAt(l2, cur)

\* C13 (amended): in that step end is inserted at the cursor (when below the
\* endpoint there), or the endpoint there is deleted (when equal to end),
\* exactly when endInsertionIdx, the index that endpoint had when the call
\* began, is even; otherwise the list stays.
C13_EndStepByEndInsertionIdx ==
    EndStepReadsCursor =>
        LET l2  == AddBeforeEnd(prevList, lastCall.start, lastCall.end)
            cur == AddCursor(prevList, lastCall.start)
        IN  intervalList =
              IF PrevJ % 2 # 0 THEN l2
              ELSE IF lastCall.end < At(l2, cur) THEN InsertAt(l2, cur, lastCall.end)
              ELSE DeleteAt(l2, cur)

\* After interior deletions end was inserted in front of an interval start,
\* with the cursor at an odd index.
C13_Witness ==
    /\ EndStepReadsCursor
    /\ outcome = "none"
    /\ PrevI < PrevJ
    /\ PrevJ % 2 = 0
    /\ AddCursor(prevList, lastCall.start) % 2 = 1
    /\ lastCall.end < At(prevList, PrevJ)
    /\ lastCall.end \in Endpoints(intervalList)
    /\ Len(AddBeforeEnd(prevList, lastCall.start, lastCall.end)) < Len(intervalList)

\* C14: no call reads the endpoint list out of range. Whatever list and
\* start < end the latest call was made with, it did not end in an
\* IndexError; on the general route of either method the start index was
\* below the length at the first boundary read; in addInterval the list was
\* non-empty when its last element was read after the interior deletions and
\* the cursor was below the length when the endpoint at the cursor was read.
C14_NoIndexError ==
    /\ outcome # "IndexError"
    /\ GeneralAdd =>
         /\ PrevI < Len(prevList)
         /\ Len(AddBeforeEnd(prevList, lastCall.start, lastCall.end)) > 0
         /\ ~(lastCall.end > Last(AddBeforeEnd(prevList, lastCall.start, lastCall.end))) =>
               AddCursor(prevList, lastCall.start)
                 < Len(AddBeforeEnd(prevList, lastCall.start, lastCall.end))
    /\ GeneralRemove => PrevI < Len(prevList)

\* An insert starting at the only stored interval's end: the start index was
\* the last index, that endpoint was deleted, and the last element was then
\* read from a one-element list.
C14_Witness ==
    /\ GeneralAdd
    /\ outcome = "none"
    /\ Len(prevList) = 2
    /\ lastCall.start = Last(prevList)
    /\ PrevI = Len(prevList) - 1
    /\ Len(AddBeforeEnd(prevList, lastCall.start, lastCall.end)) = 1
    /\ Len(intervalList) = 2

\* C15: after a valid addInterval(a, b) on a list that covered no integer of
\* [a, b), removeInterval(a, b) gives back the list as it was before the
\* insert, without error.
C15_InsertRemoveRoundTrip ==
    (ValidCall("add") /\ Covered(prevList) \cap Range(lastCall.start, lastCall.end) = {}) =>
        removeInterval(intervalList, lastCall.start, lastCall.end)
            = [list |-> prevList, outcome |-> "none"]

\* The inserted range filled the gap between two stored intervals exactly,
\* merging them into one.
C15_Witness ==
    /\ ValidCall("add")
    /\ outcome = "none"
    /\ Covered(prevList) \cap Range(lastCall.start, lastCall.end) = {}
    /\ Len(prevList) >= 4
    /\ lastCall.start \in Endpoints(prevList)
    /\ lastCall.end \in Endpoints(prevList)
    /\ Len(intervalList) = Len(prevList) - 2

====
